---- MODULE Spec2Model ----
(***************************************************************************)
(* A model of PerfEventViktor.hpp: the PerfEvent counter registry, its     *)
(* start/stop protocol against the kernel's perf_event interface, the      *)
(* multiplexing-corrected reader and the derived metrics, and the scoped   *)
(* PerfEventBlock.                                                         *)
(*                                                                         *)
(* Machine arithmetic is modelled at full width.  A uint64_t is a natural  *)
(* number below 2^64 written as a little-endian sequence of limbs in base  *)
(* 2^15 without leading zero limbs (<<>> is 0), because TLC's own integers *)
(* are 32 bits wide.  A double is a record                                 *)
(*     [k |-> "num", s |-> sign, m |-> mantissa, e |-> exponent]           *)
(* of value (-1)^s * m * 2^e with m = 0 or 2^52 <= m < 2^53, or k = "inf", *)
(* or k = "nan"; arithmetic rounds to nearest, ties to even, as IEEE-754   *)
(* binary64 does.  The exponent is unbounded: every value the program      *)
(* computes from 64-bit counters lies far inside binary64's exponent range,*)
(* so neither overflow nor subnormal results occur.                        *)
(***************************************************************************)
EXTENDS Integers, Sequences, FiniteSets, TLC

(***************************************************************************)
(* Natural numbers of arbitrary size (limbs in 0..32767, least significant *)
(* first).                                                                 *)
(***************************************************************************)
RECURSIVE BNTrim(_)
BNTrim(a) ==
  IF a = <<>> THEN <<>>
  ELSE IF a[Len(a)] = 0 THEN BNTrim(SubSeq(a, 1, Len(a) - 1))
  ELSE a

RECURSIVE BNFromNat(_)
BNFromNat(n) ==
  IF n = 0 THEN <<>> ELSE <<n % 32768>> \o BNFromNat(n \div 32768)

BNLimb(a, i) == IF i <= Len(a) THEN a[i] ELSE 0

RECURSIVE BNAddFrom(_, _, _, _)
BNAddFrom(a, b, i, c) ==
  IF i > Len(a) /\ i > Len(b)
  THEN (IF c = 0 THEN <<>> ELSE <<c>>)
  ELSE LET s == BNLimb(a, i) + BNLimb(b, i) + c
       IN  <<s % 32768>> \o BNAddFrom(a, b, i + 1, s \div 32768)

BNAdd(a, b) == BNAddFrom(a, b, 1, 0)

RECURSIVE BNCmpAt(_, _, _)
BNCmpAt(a, b, i) ==
  IF i = 0 THEN 0
  ELSE IF a[i] < b[i] THEN -1
  ELSE IF a[i] > b[i] THEN 1
  ELSE BNCmpAt(a, b, i - 1)

\* -1, 0 or 1 as a < b, a = b or a > b.
BNCmp(a, b) ==
  IF Len(a) < Len(b) THEN -1
  ELSE IF Len(a) > Len(b) THEN 1
  ELSE BNCmpAt(a, b, Len(a))

RECURSIVE BNSubFrom(_, _, _, _)
BNSubFrom(a, b, i, br) ==
  IF i > Len(a) THEN <<>>
  ELSE LET d == a[i] - BNLimb(b, i) - br
       IN  <<(d + 32768) % 32768>> \o BNSubFrom(a, b, i + 1, IF d < 0 THEN 1 ELSE 0)

\* a - b for a >= b.
BNSub(a, b) == BNTrim(BNSubFrom(a, b, 1, 0))

RECURSIVE BNMulSmallFrom(_, _, _, _)
BNMulSmallFrom(a, k, i, c) ==
  IF i > Len(a) THEN BNFromNat(c)
  ELSE LET p == a[i] * k + c
       IN  <<p % 32768>> \o BNMulSmallFrom(a, k, i + 1, p \div 32768)

\* a * k for a small k (k < 2^15).
BNMulSmall(a, k) == IF k = 0 THEN <<>> ELSE BNMulSmallFrom(a, k, 1, 0)

RECURSIVE BNMulFrom(_, _, _)
BNMulFrom(a, b, i) ==
  IF i > Len(b) THEN <<>>
  ELSE BNAdd(BNMulSmall(a, b[i]),
             LET rest == BNMulFrom(a, b, i + 1)
             IN  IF rest = <<>> THEN <<>> ELSE <<0>> \o rest)

BNMul(a, b) == IF a = <<>> \/ b = <<>> THEN <<>> ELSE BNMulFrom(a, b, 1)

RECURSIVE BNDivSmallAt(_, _, _, _)
BNDivSmallAt(a, d, i, r) ==
  IF i = 0 THEN <<>>
  ELSE LET cur == r * 32768 + a[i]
       IN  BNDivSmallAt(a, d, i - 1, cur % d) \o <<cur \div d>>

\* floor(a / d) for a small d > 0.
BNDivSmall(a, d) == BNTrim(BNDivSmallAt(a, d, Len(a), 0))

RECURSIVE Pow2(_)
Pow2(n) == IF n = 0 THEN 1 ELSE 2 * Pow2(n - 1)

RECURSIVE SmallBitLen(_)
SmallBitLen(n) == IF n = 0 THEN 0 ELSE 1 + SmallBitLen(n \div 2)

\* The number of significant bits of a (0 for 0).
BNBitLen(a) ==
  IF a = <<>> THEN 0 ELSE 15 * (Len(a) - 1) + SmallBitLen(a[Len(a)])

\* a * 2^n.
BNShl(a, n) ==
  IF a = <<>> THEN <<>>
  ELSE [i \in 1..(n \div 15) |-> 0] \o BNMulSmall(a, Pow2(n % 15))

\* floor(a / 2^n).
BNShr(a, n) ==
  IF n \div 15 >= Len(a) THEN <<>>
  ELSE BNDivSmall(SubSeq(a, (n \div 15) + 1, Len(a)), Pow2(n % 15))

BNIsOdd(a) == a # <<>> /\ a[1] % 2 = 1

\* Long division, one quotient bit a step: n more bits of floor(r * 2^n / d)
\* are appended to q; the result is <<quotient, remainder>>.  Once the
\* remainder is 0 the remaining quotient bits are 0.
RECURSIVE BNDivBits(_, _, _, _)
BNDivBits(q, r, d, n) ==
  IF n = 0 \/ Len(q) < 0 THEN <<q, r>>
  ELSE IF r = <<>> THEN <<BNShl(q, n), <<>>>>
  ELSE LET r2 == BNMulSmall(r, 2)
           q2 == BNMulSmall(q, 2)
       IN  IF BNCmp(r2, d) >= 0
           THEN BNDivBits(BNAdd(q2, <<1>>), BNSub(r2, d), d, n - 1)
           ELSE BNDivBits(q2, r2, d, n - 1)

(***************************************************************************)
(* uint64_t: the fields of read_format and the differences readCounter     *)
(* takes of them.                                                          *)
(***************************************************************************)
\* 2^64 as a natural number.
TwoTo64 == BNShl(<<1>>, 64)

\* a - b in uint64_t arithmetic: the difference modulo 2^64.
U64Sub(a, b) ==
  IF BNCmp(a, b) >= 0 THEN BNSub(a, b) ELSE BNSub(TwoTo64, BNSub(b, a))

\* a + b in uint64_t arithmetic.
U64Add(a, b) ==
  LET s == BNAdd(a, b)
  IN  IF BNCmp(s, TwoTo64) >= 0 THEN BNSub(s, TwoTo64) ELSE s

(***************************************************************************)
(* double.                                                                 *)
(***************************************************************************)
DZero(s) == [k |-> "num", s |-> s, m |-> <<>>, e |-> 0]
DInf(s)  == [k |-> "inf", s |-> s, m |-> <<>>, e |-> 0]
DNaN     == [k |-> "nan", s |-> 0, m |-> <<>>, e |-> 0]

\* The double nearest to (-1)^s * (m + f) * 2^e, where 0 <= f < 1 and
\* sticky says whether f > 0; ties go to the even mantissa.  With sticky set,
\* m carries at least 55 bits.
DRound(s, m, e, sticky) ==
  LET len == BNBitLen(m)
  IN  IF m = <<>> THEN DZero(s)
      ELSE IF len <= 53
      THEN [k |-> "num", s |-> s, m |-> BNShl(m, 53 - len), e |-> e - (53 - len)]
      ELSE LET sh   == len - 53
               q    == BNShr(m, sh)
               rem  == BNSub(m, BNShl(q, sh))
               half == BNShl(<<1>>, sh - 1)
               c    == BNCmp(rem, half)
               up   == c > 0 \/ (c = 0 /\ (sticky \/ BNIsOdd(q)))
               q1   == IF up THEN BNAdd(q, <<1>>) ELSE q
           IN  IF BNBitLen(q1) > 53
               THEN [k |-> "num", s |-> s, m |-> BNShr(q1, 1), e |-> e + sh + 1]
               ELSE [k |-> "num", s |-> s, m |-> q1, e |-> e + sh]

\* static_cast<double>(u) of a uint64_t.
DFromU64(u) == DRound(0, u, 0, FALSE)

\* The double of a small integer literal.
DFromInt(n) == IF n < 0 THEN DRound(1, BNFromNat(-n), 0, FALSE)
               ELSE DRound(0, BNFromNat(n), 0, FALSE)

DIsZero(x) == x.k = "num" /\ x.m = <<>>

SignXor(a, b) == IF a = b THEN 0 ELSE 1

\* x * y.
DMul(x, y) ==
  IF x.k = "nan" \/ y.k = "nan" THEN DNaN
  ELSE IF (x.k = "inf" /\ DIsZero(y)) \/ (DIsZero(x) /\ y.k = "inf") THEN DNaN
  ELSE IF x.k = "inf" \/ y.k = "inf" THEN DInf(SignXor(x.s, y.s))
  ELSE IF DIsZero(x) \/ DIsZero(y) THEN DZero(SignXor(x.s, y.s))
  ELSE DRound(SignXor(x.s, y.s), BNMul(x.m, y.m), x.e + y.e, FALSE)

\* x / y.
DDiv(x, y) ==
  IF x.k = "nan" \/ y.k = "nan" THEN DNaN
  ELSE IF x.k = "inf" /\ y.k = "inf" THEN DNaN
  ELSE IF DIsZero(x) /\ DIsZero(y) THEN DNaN
  ELSE IF x.k = "inf" \/ DIsZero(y) THEN DInf(SignXor(x.s, y.s))
  ELSE IF y.k = "inf" \/ DIsZero(x) THEN DZero(SignXor(x.s, y.s))
  ELSE LET first == IF BNCmp(x.m, y.m) >= 0 THEN <<1>> ELSE <<>>
           r0    == IF BNCmp(x.m, y.m) >= 0 THEN BNSub(x.m, y.m) ELSE x.m
           res   == BNDivBits(first, r0, y.m, 56)
       IN  DRound(SignXor(x.s, y.s), res[1], x.e - y.e - 56, res[2] # <<>>)

\* x == y as C++ compares doubles: a NaN equals nothing, -0 equals +0.
DEq(x, y) ==
  /\ x.k # "nan" /\ y.k # "nan"
  /\ \/ (DIsZero(x) /\ DIsZero(y))
     \/ x = y

\* x >= 0 as C++ compares doubles.
DNonNeg(x) == x.k # "nan" /\ (x.s = 0 \/ DIsZero(x))

\* x is neither an infinity nor a NaN.
DFinite(x) == x.k = "num"

(***************************************************************************)
(* Bounds of the model.                                                    *)
(***************************************************************************)
\* The calls that change the object (startCounters, stopCounters,
\* registerCounter, setParam, a PerfEventBlock's construction) in one
\* behaviour, a short read counting as one more.
MaxCalls == 2
\* Stretches of measured work in one behaviour.
MaxRuns == 2
\* Calls that only read the object, in one behaviour.
MaxQueries == 1
\* Counter ticks between a counter's enable and its baseline read.
MaxLat == 1

(***************************************************************************)
(* The program's constants.                                                *)
(***************************************************************************)
\* linux/perf_event.h, enum perf_type_id and the event ids the constructor
\* passes.
PERF_TYPE_HARDWARE == 0
PERF_TYPE_SOFTWARE == 1
PERF_TYPE_HW_CACHE == 3
PERF_TYPE_RAW == 4
PERF_COUNT_HW_CPU_CYCLES == 0
PERF_COUNT_HW_INSTRUCTIONS == 1
PERF_COUNT_HW_CACHE_MISSES == 3
PERF_COUNT_HW_BRANCH_MISSES == 5
PERF_COUNT_SW_TASK_CLOCK == 1
\* PERF_COUNT_HW_CACHE_L1D | (PERF_COUNT_HW_CACHE_OP_READ << 8)
\*                         | (PERF_COUNT_HW_CACHE_RESULT_MISS << 16)
L1DReadMiss == 0 + (0 * 256) + (1 * 65536)
\* 0x43FFAE
RawScaledCycles == (67 * 65536) + (255 * 256) + 174
\* PERF_FORMAT_TOTAL_TIME_ENABLED | PERF_FORMAT_TOTAL_TIME_RUNNING
ReadFormatTimes == {"TOTAL_TIME_ENABLED", "TOTAL_TIME_RUNNING"}
\* sizeof(uint64_t) * 3, the size startCounters and stopCounters ask read for,
\* counted in 8-byte fields.
SnapshotFields == 3

\* The registerCounter calls of the constructor, in order.
DefaultCounters == <<
  [name |-> "cycle",    type |-> PERF_TYPE_HARDWARE, eventID |-> PERF_COUNT_HW_CPU_CYCLES,    exclude_user |-> FALSE],
  [name |-> "kcycle",   type |-> PERF_TYPE_HARDWARE, eventID |-> PERF_COUNT_HW_CPU_CYCLES,    exclude_user |-> TRUE],
  [name |-> "scycle",   type |-> PERF_TYPE_RAW,      eventID |-> RawScaledCycles,             exclude_user |-> FALSE],
  [name |-> "instr",    type |-> PERF_TYPE_HARDWARE, eventID |-> PERF_COUNT_HW_INSTRUCTIONS,  exclude_user |-> FALSE],
  [name |-> "L1-miss",  type |-> PERF_TYPE_HW_CACHE, eventID |-> L1DReadMiss,                 exclude_user |-> FALSE],
  [name |-> "LLC-miss", type |-> PERF_TYPE_HARDWARE, eventID |-> PERF_COUNT_HW_CACHE_MISSES,  exclude_user |-> FALSE],
  [name |-> "br-miss",  type |-> PERF_TYPE_HARDWARE, eventID |-> PERF_COUNT_HW_BRANCH_MISSES, exclude_user |-> FALSE],
  [name |-> "task",     type |-> PERF_TYPE_SOFTWARE, eventID |-> PERF_COUNT_SW_TASK_CLOCK,    exclude_user |-> FALSE] >>

(***************************************************************************)
(* PerfEvent::event.                                                       *)
(***************************************************************************)
\* A value-initialised read_format.
ZeroFormat == [value |-> <<>>, time_enabled |-> <<>>, time_running |-> <<>>, id |-> <<>>]

\* perf_event_attr after memset(&pe, 0, ...).
ZeroAttr ==
  [type |-> 0, config |-> 0, disabled |-> FALSE, inherit |-> FALSE,
   inherit_stat |-> FALSE, exclude_user |-> FALSE, exclude_kernel |-> FALSE,
   exclude_hv |-> FALSE, read_format |-> {}]

\* event(): every member zero.
ZeroEvent == [pe |-> ZeroAttr, fd |-> 0, prev |-> ZeroFormat, data |-> ZeroFormat]

\* An attribute block that asks for a counter that starts enabled
\* (pe.disabled = false); the measurement-window property tells it from
\* CounterAttr.
CounterAttrEnabled(type, eventID, exclude_user) ==
  [ZeroAttr EXCEPT !.type = type, !.config = eventID, !.disabled = FALSE,
                   !.inherit = TRUE, !.inherit_stat = FALSE,
                   !.exclude_user = exclude_user, !.exclude_kernel = FALSE,
                   !.exclude_hv = FALSE, !.read_format = ReadFormatTimes]

\* The attribute block registerCounter fills in.
CounterAttr(type, eventID, exclude_user) ==
  [ZeroAttr EXCEPT !.type = type, !.config = eventID, !.disabled = TRUE,
                   !.inherit = TRUE, !.inherit_stat = FALSE,
                   !.exclude_user = exclude_user, !.exclude_kernel = FALSE,
                   !.exclude_hv = FALSE, !.read_format = ReadFormatTimes]

\* A registerCounter that puts the new name and event in front (push_front);
\* the ordering properties tell it from registerCounter.
registerCounterFront(reg, name, type, eventID, exclude_user) ==
  [events |-> <<[ZeroEvent EXCEPT !.pe = CounterAttr(type, eventID, exclude_user)]>>
              \o reg.events,
   names  |-> <<name>> \o reg.names]

\* registerCounter on the registry reg = [events, names]: one name and one
\* event appended, the handle not opened.
registerCounter(reg, name, type, eventID, exclude_user) ==
  [events |-> Append(reg.events,
                     [ZeroEvent EXCEPT !.pe = CounterAttr(type, eventID, exclude_user)]),
   names  |-> Append(reg.names, name)]

\* A readCounter with the correction upside down (running over enabled); the
\* correction formula tells it from readCounter.
readCounterInverse(ev) ==
  LET multiplexingCorrection ==
        DDiv(DFromU64(U64Sub(ev.data.time_running, ev.prev.time_running)),
             DFromU64(U64Sub(ev.data.time_enabled, ev.prev.time_enabled)))
  IN  DMul(DFromU64(U64Sub(ev.data.value, ev.prev.value)), multiplexingCorrection)

\* data - prev as a signed difference turned into a double.
SignedDelta(a, b) ==
  IF BNCmp(a, b) >= 0 THEN DRound(0, BNSub(a, b), 0, FALSE)
  ELSE DRound(1, BNSub(b, a), 0, FALSE)

\* A readCounter whose three differences are signed instead of taken modulo
\* 2^64; the sign of the result tells it from readCounter.
readCounterSigned(ev) ==
  LET multiplexingCorrection ==
        DDiv(SignedDelta(ev.data.time_enabled, ev.prev.time_enabled),
             SignedDelta(ev.data.time_running, ev.prev.time_running))
  IN  DMul(SignedDelta(ev.data.value, ev.prev.value), multiplexingCorrection)

\* event::readCounter.
readCounter(ev) ==
  LET multiplexingCorrection ==
        DDiv(DFromU64(U64Sub(ev.data.time_enabled, ev.prev.time_enabled)),
             DFromU64(U64Sub(ev.data.time_running, ev.prev.time_running)))
  IN  DMul(DFromU64(U64Sub(ev.data.value, ev.prev.value)), multiplexingCorrection)

(***************************************************************************)
(* The kernel: file descriptors and perf_event counters.                   *)
(***************************************************************************)
\* Standard input, output and error, open in every process.
StdFds == {0, 1, 2}

\* The descriptors the process can hold: the standard ones and one for each
\* counter the constructor opens.
Fds == 0..(Cardinality(StdFds) + Len(DefaultCounters) - 1)

\* kind: "std", "perf" or "none" (not open).  opens and closes count the
\* perf_event_open calls that returned the descriptor and the close calls on
\* it.
FreeFd ==
  [kind |-> "none", attr |-> ZeroAttr, enabled |-> FALSE, value |-> <<>>,
   time_enabled |-> <<>>, time_running |-> <<>>, opens |-> 0, closes |-> 0]

KernelInit ==
  [fd \in Fds |-> IF fd \in StdFds THEN [FreeFd EXCEPT !.kind = "std"] ELSE FreeFd]

\* perf_event_open(&attr, 0, -1, -1, 0): the lowest free descriptor, or -1
\* when the kernel refuses.
KOpen(k, attr, fails) ==
  IF fails \/ \A fd \in Fds : k[fd].kind # "none"
  THEN [fd |-> -1, kernel |-> k]
  ELSE LET fd == CHOOSE f \in Fds :
                   /\ k[f].kind = "none"
                   /\ \A g \in Fds : k[g].kind = "none" => f <= g
       IN  [fd |-> fd,
            kernel |-> [k EXCEPT ![fd] =
                          [FreeFd EXCEPT !.kind = "perf", !.attr = attr,
                                         !.enabled = ~attr.disabled,
                                         !.opens = k[fd].opens + 1,
                                         !.closes = k[fd].closes]]]

\* ioctl(fd, PERF_EVENT_IOC_RESET | ENABLE | DISABLE, 0); on a descriptor
\* that is no counter the call fails and changes nothing.
KIoctl(k, fd, req) ==
  IF k[fd].kind # "perf" THEN k
  ELSE IF req = "reset" THEN [k EXCEPT ![fd].value = <<>>]
  ELSE IF req = "enable" THEN [k EXCEPT ![fd].enabled = TRUE]
  ELSE [k EXCEPT ![fd].enabled = FALSE]

\* The counter behind fd counts n events over n ns, running all the while.
KAdvance(k, fd, n) ==
  IF k[fd].kind = "perf" /\ k[fd].enabled
  THEN [k EXCEPT ![fd].value = U64Add(@, BNFromNat(n)),
                 ![fd].time_enabled = U64Add(@, BNFromNat(n)),
                 ![fd].time_running = U64Add(@, BNFromNat(n))]
  ELSE k

\* read(fd, buf, 24) into the read_format buf: the number of 8-byte fields
\* delivered and the buffer afterwards.  A counter delivers value,
\* time_enabled and time_running, or only the first got of them when the
\* read is short; a descriptor that is no counter (standard input at end of
\* file, a closed descriptor) delivers nothing.
KRead(k, fd, buf, short, got) ==
  LET n == IF k[fd].kind # "perf" THEN 0
           ELSE IF short THEN got ELSE SnapshotFields
  IN  [n   |-> n,
       buf |-> [buf EXCEPT !.value = IF n >= 1 THEN k[fd].value ELSE @,
                           !.time_enabled = IF n >= 2 THEN k[fd].time_enabled ELSE @,
                           !.time_running = IF n >= 3 THEN k[fd].time_running ELSE @]]

\* close(fd).
KClose(k, fd) ==
  [k EXCEPT ![fd].closes = @ + 1, ![fd].kind = "none", ![fd].enabled = FALSE]

\* One kernel call, or one reading of the clock, as a step of a trace.
Call(what, fd) == [call |-> what, fd |-> fd]

(***************************************************************************)
(* Measured work: what the counters see between two calls.                 *)
(***************************************************************************)
Giga == BNFromNat(1000000000)

\* dt: wall-clock ns.  enabled and running: ns every enabled counter was
\* enabled and a hardware counter was scheduled on the PMU (a software
\* counter always runs).  counts: the events, in the order of
\* DefaultCounters.
Workloads == <<
  \* not multiplexed: 1000 instructions in 500 cycles
  [dt |-> BNFromNat(250), enabled |-> BNFromNat(250), running |-> BNFromNat(250),
   counts |-> <<BNFromNat(500), BNFromNat(100), BNFromNat(500), BNFromNat(1000),
                BNFromNat(10), BNFromNat(2), BNFromNat(5), BNFromNat(250)>>],
  \* not multiplexed: one second at 3 GHz
  [dt |-> Giga, enabled |-> Giga, running |-> Giga,
   counts |-> <<BNMulSmall(Giga, 3), BNFromNat(1000000), BNMulSmall(Giga, 3),
                BNMulSmall(Giga, 6), BNFromNat(70000), BNFromNat(3000),
                BNFromNat(40000), Giga>>],
  \* multiplexed: the hardware counters ran 75 ns of 250
  [dt |-> BNFromNat(250), enabled |-> BNFromNat(250), running |-> BNFromNat(75),
   counts |-> <<BNFromNat(7), BNFromNat(1), BNFromNat(7), BNFromNat(9),
                BNFromNat(1), <<>>, <<>>, BNFromNat(250)>>],
  \* starved: the hardware counters were never scheduled
  [dt |-> BNFromNat(250), enabled |-> BNFromNat(250), running |-> <<>>,
   counts |-> <<<<>>, <<>>, <<>>, <<>>, <<>>, <<>>, <<>>, BNFromNat(250)>>] >>

\* The place in DefaultCounters of the event an attribute block describes.
EventIndex(attr) ==
  CHOOSE i \in 1..Len(DefaultCounters) :
    /\ DefaultCounters[i].type = attr.type
    /\ DefaultCounters[i].eventID = attr.config
    /\ DefaultCounters[i].exclude_user = attr.exclude_user

\* The kernel after the workload w: every enabled counter has counted.
KRun(k, w) ==
  [fd \in Fds |->
     IF k[fd].kind = "perf" /\ k[fd].enabled
     THEN [k[fd] EXCEPT
             !.value = U64Add(@, w.counts[EventIndex(k[fd].attr)]),
             !.time_enabled = U64Add(@, w.enabled),
             !.time_running =
                U64Add(@, IF k[fd].attr.type = PERF_TYPE_SOFTWARE
                          THEN w.enabled ELSE w.running)]
     ELSE k[fd]]

(***************************************************************************)
(* The state.                                                              *)
(***************************************************************************)
VARIABLES
  phase,        \* "unconstructed", "live" or "destroyed": the PerfEvent object
  events,       \* PerfEvent::events
  names,        \* PerfEvent::names
  startTime,    \* PerfEvent::startTime, ns on the steady clock
  stopTime,     \* PerfEvent::stopTime
  params,       \* PerfEvent::params
  printHeader,  \* PerfEvent::printHeader
  blocks,       \* the PerfEventBlocks alive on this PerfEvent
  kernel,       \* the process's descriptors and counters
  clock,        \* std::chrono::steady_clock::now(), ns
  cout,         \* the lines written to std::cout
  window,       \* "none", "started" (startCounters ran last) or "stopped"
                \* (stopCounters has run since the last startCounters)
  lateRegs,     \* the registerCounter calls made after construction
  lastOp,       \* the last step taken
  lastArg,      \* its argument
  trace,        \* the kernel calls and clock readings it made, in order
  cerr,         \* the counter names it reported on std::cerr
  shortReads,   \* the counters whose read the kernel cut short in it
  headerOut,    \* the columns it wrote to its header stream
  dataOut,      \* the columns it wrote to its data stream
  nCalls,       \* state-changing calls and short reads so far
  nRuns,        \* workloads so far
  nQueries      \* read-only calls so far

object == <<phase, events, names, startTime, stopTime, params, printHeader>>
world  == <<blocks, kernel, clock, cout>>
history == <<window, lateRegs>>
last   == <<lastOp, lastArg, trace, cerr, shortReads, headerOut, dataOut>>
budget == <<nCalls, nRuns, nQueries>>
vars   == <<object, world, history, last, budget>>

(***************************************************************************)
(* PerfEvent.                                                              *)
(***************************************************************************)
\* The registry after the first n registerCounter calls of the constructor.
RECURSIVE RegisterDefaults(_)
RegisterDefaults(n) ==
  IF n = 0 THEN [events |-> <<>>, names |-> <<>>]
  ELSE LET c == DefaultCounters[n]
       IN  registerCounter(RegisterDefaults(n - 1), c.name, c.type, c.eventID,
                           c.exclude_user)

\* A constructor loop that, when an open fails, keeps the counters opened so
\* far instead of clearing the registry; the all-or-nothing property tells it
\* from OpenLoop.
RECURSIVE OpenLoopPartial(_, _, _, _, _)
OpenLoopPartial(i, reg, k, failAt, tr) ==
  IF i > Len(reg.events)
  THEN [events |-> reg.events, names |-> reg.names, kernel |-> k,
        trace |-> tr, cerr |-> <<>>]
  ELSE LET r == KOpen(k, reg.events[i].pe, i = failAt)
       IN  IF r.fd < 0
           THEN [events |-> SubSeq(reg.events, 1, i - 1),
                 names |-> SubSeq(reg.names, 1, i - 1), kernel |-> r.kernel,
                 trace |-> Append(tr, Call("open", r.fd)),
                 cerr |-> <<reg.names[i]>>]
           ELSE OpenLoopPartial(i + 1, [reg EXCEPT !.events[i].fd = r.fd], r.kernel,
                                failAt, Append(tr, Call("open", r.fd)))

\* The constructor's loop from counter i on; the failAt-th perf_event_open
\* fails (none when failAt = 0).
RECURSIVE OpenLoop(_, _, _, _, _)
OpenLoop(i, reg, k, failAt, tr) ==
  IF i > Len(reg.events)
  THEN [events |-> reg.events, names |-> reg.names, kernel |-> k,
        trace |-> tr, cerr |-> <<>>]
  ELSE LET r == KOpen(k, reg.events[i].pe, i = failAt)
       IN  IF r.fd < 0
           THEN [events |-> <<>>, names |-> <<>>, kernel |-> r.kernel,
                 trace |-> Append(tr, Call("open", r.fd)),
                 cerr |-> <<reg.names[i]>>]
           ELSE OpenLoop(i + 1, [reg EXCEPT !.events[i].fd = r.fd], r.kernel,
                         failAt, Append(tr, Call("open", r.fd)))

\* PerfEvent::PerfEvent().
PerfEventCtor(k, failAt) ==
  OpenLoop(1, RegisterDefaults(Len(DefaultCounters)), k, failAt, <<>>)

\* A startCounters loop that gives up at the first short read; the
\* short-read property tells it from StartLoop.
RECURSIVE StartLoopBreak(_, _, _, _, _, _, _, _, _)
StartLoopBreak(i, evs, nms, k, shorts, got, lat, tr, err) ==
  IF i > Len(evs)
  THEN [events |-> evs, kernel |-> k, trace |-> tr, cerr |-> err]
  ELSE LET fd == evs[i].fd
           k1 == KIoctl(k, fd, "reset")
           k2 == KIoctl(k1, fd, "enable")
           k3 == KAdvance(k2, fd, lat)
           r  == KRead(k3, fd, evs[i].prev, i \in shorts, got)
           t3 == tr \o <<Call("reset", fd), Call("enable", fd), Call("read", fd)>>
       IN  IF r.n # SnapshotFields
           THEN [events |-> [evs EXCEPT ![i].prev = r.buf], kernel |-> k3,
                 trace |-> t3, cerr |-> Append(err, nms[i])]
           ELSE StartLoopBreak(i + 1, [evs EXCEPT ![i].prev = r.buf], nms, k3,
                               shorts, got, lat, t3, err)

\* The loop of startCounters from counter i on.  shorts: the counters whose
\* read is short, delivering got fields; lat: the ticks between a counter's
\* enable and its read.
RECURSIVE StartLoop(_, _, _, _, _, _, _, _, _)
StartLoop(i, evs, nms, k, shorts, got, lat, tr, err) ==
  IF i > Len(evs)
  THEN [events |-> evs, kernel |-> k, trace |-> tr, cerr |-> err]
  ELSE LET fd == evs[i].fd
           k1 == KIoctl(k, fd, "reset")
           k2 == KIoctl(k1, fd, "enable")
           k3 == KAdvance(k2, fd, lat)
           r  == KRead(k3, fd, evs[i].prev, i \in shorts, got)
       IN  StartLoop(i + 1, [evs EXCEPT ![i].prev = r.buf], nms, k3, shorts,
                     got, lat,
                     tr \o <<Call("reset", fd), Call("enable", fd), Call("read", fd)>>,
                     IF r.n # SnapshotFields THEN Append(err, nms[i]) ELSE err)

\* A startCounters that reads the clock before it touches the counters; the
\* order of its calls tells it from startCounters.
startCountersClockFirst(evs, nms, k, now, shorts, got, lat) ==
  LET r == StartLoop(1, evs, nms, k, shorts, got, lat, <<Call("now", -1)>>, <<>>)
  IN  [events |-> r.events, kernel |-> r.kernel, cerr |-> r.cerr,
       trace |-> r.trace, startTime |-> now]

\* PerfEvent::startCounters(), the clock reading now.
startCounters(evs, nms, k, now, shorts, got, lat) ==
  LET r == StartLoop(1, evs, nms, k, shorts, got, lat, <<>>, <<>>)
  IN  [events |-> r.events, kernel |-> r.kernel, cerr |-> r.cerr,
       trace |-> Append(r.trace, Call("now", -1)), startTime |-> now]

\* A stopCounters loop that disables each counter before it reads it; the
\* order of the calls tells it from StopLoop.
RECURSIVE StopLoopDisableFirst(_, _, _, _, _, _, _, _)
StopLoopDisableFirst(i, evs, nms, k, shorts, got, tr, err) ==
  IF i > Len(evs)
  THEN [events |-> evs, kernel |-> k, trace |-> tr, cerr |-> err]
  ELSE LET fd == evs[i].fd
           k1 == KIoctl(k, fd, "disable")
           r  == KRead(k1, fd, evs[i].data, i \in shorts, got)
       IN  StopLoopDisableFirst(i + 1, [evs EXCEPT ![i].data = r.buf], nms, k1,
                                shorts, got,
                                tr \o <<Call("disable", fd), Call("read", fd)>>,
                                IF r.n # SnapshotFields THEN Append(err, nms[i]) ELSE err)

\* The loop of stopCounters from counter i on.
RECURSIVE StopLoop(_, _, _, _, _, _, _, _)
StopLoop(i, evs, nms, k, shorts, got, tr, err) ==
  IF i > Len(evs)
  THEN [events |-> evs, kernel |-> k, trace |-> tr, cerr |-> err]
  ELSE LET fd == evs[i].fd
           r  == KRead(k, fd, evs[i].data, i \in shorts, got)
           k1 == KIoctl(k, fd, "disable")
       IN  StopLoop(i + 1, [evs EXCEPT ![i].data = r.buf], nms, k1, shorts, got,
                    tr \o <<Call("read", fd), Call("disable", fd)>>,
                    IF r.n # SnapshotFields THEN Append(err, nms[i]) ELSE err)

\* A stopCounters that also closes every handle once it has disabled the
\* counters; the handle-validity property tells it from stopCounters.
stopCountersClosing(evs, nms, k, now, shorts, got) ==
  LET r == StopLoop(1, evs, nms, k, shorts, got, <<Call("now", -1)>>, <<>>)
  IN  [events |-> r.events, cerr |-> r.cerr, trace |-> r.trace, stopTime |-> now,
       kernel |-> [fd \in Fds |->
                     IF \E i \in 1..Len(evs) : evs[i].fd = fd
                     THEN KClose(r.kernel, fd)[fd] ELSE r.kernel[fd]]]

\* PerfEvent::stopCounters(), the clock reading now.
stopCounters(evs, nms, k, now, shorts, got) ==
  LET r == StopLoop(1, evs, nms, k, shorts, got, <<Call("now", -1)>>, <<>>)
  IN  [events |-> r.events, kernel |-> r.kernel, cerr |-> r.cerr,
       trace |-> r.trace, stopTime |-> now]

\* The loop of ~PerfEvent() from event i on.
RECURSIVE CloseLoop(_, _, _, _)
CloseLoop(i, evs, k, tr) ==
  IF i > Len(evs) THEN [kernel |-> k, trace |-> tr]
  ELSE CloseLoop(i + 1, evs, KClose(k, evs[i].fd), Append(tr, Call("close", evs[i].fd)))

\* PerfEvent::~PerfEvent().
PerfEventDtor(evs, k) == CloseLoop(1, evs, k, <<>>)

\* A lookup that scans from the back and so returns the last counter of the
\* name; the first-match property tells it from getCounterFrom.
RECURSIVE getCounterFromLast(_, _, _, _)
getCounterFromLast(evs, nms, name, i) ==
  IF i > Len(evs) THEN DFromInt(-1)
  ELSE IF nms[Len(evs) + 1 - i] = name THEN readCounter(evs[Len(evs) + 1 - i])
  ELSE getCounterFromLast(evs, nms, name, i + 1)

\* A lookup that answers 0 for a name it does not find; the sentinel property
\* tells it from getCounterFrom.
RECURSIVE getCounterFromZero(_, _, _, _)
getCounterFromZero(evs, nms, name, i) ==
  IF i > Len(evs) THEN DFromInt(0)
  ELSE IF nms[i] = name THEN readCounter(evs[i])
  ELSE getCounterFromZero(evs, nms, name, i + 1)

\* The loop of getCounter from index i on.
RECURSIVE getCounterFrom(_, _, _, _)
getCounterFrom(evs, nms, name, i) ==
  IF i > Len(evs) THEN DFromInt(-1)
  ELSE IF nms[i] = name THEN readCounter(evs[i])
  ELSE getCounterFrom(evs, nms, name, i + 1)

\* PerfEvent::getCounter(name).
getCounter(evs, nms, name) == getCounterFrom(evs, nms, name, 1)

\* startTime - stopTime, the operands the wrong way round; the sign of the
\* duration tells it from Elapsed.
ElapsedSwapped(start, stop) ==
  IF BNCmp(start, stop) >= 0 THEN [neg |-> FALSE, mag |-> BNSub(start, stop)]
  ELSE [neg |-> TRUE, mag |-> BNSub(stop, start)]

\* stopTime - startTime, a signed count of ns: its sign and magnitude.
Elapsed(start, stop) ==
  IF BNCmp(stop, start) >= 0 THEN [neg |-> FALSE, mag |-> BNSub(stop, start)]
  ELSE [neg |-> TRUE, mag |-> BNSub(start, stop)]

\* PerfEvent::getDuration(): the ns count as a double, divided by 10^9.
getDuration(start, stop) ==
  LET d == Elapsed(start, stop)
  IN  DDiv(DRound(IF d.neg THEN 1 ELSE 0, d.mag, 0, FALSE), DFromU64(Giga))

\* The count of duration_cast<microseconds>(stopTime - startTime): the ns
\* count divided by 1000, rounded toward zero.
MicrosCount(start, stop) ==
  LET d == Elapsed(start, stop)
  IN  [neg |-> d.neg, mag |-> BNDivSmall(d.mag, 1000)]

\* PerfEvent::getDurationMicros(): that count converted to size_t.
getDurationMicros(start, stop) ==
  LET c == MicrosCount(start, stop)
  IN  IF c.neg /\ c.mag # <<>> THEN BNSub(TwoTo64, c.mag) ELSE c.mag

\* cycles per instruction, the quotient upside down; the derived-metric
\* property tells it from getIPC.
getIPCSwapped(evs, nms) ==
  DDiv(getCounter(evs, nms, "cycle"), getCounter(evs, nms, "instr"))

\* PerfEvent::getIPC().
getIPC(evs, nms) == DDiv(getCounter(evs, nms, "instr"), getCounter(evs, nms, "cycle"))

\* PerfEvent::getCPUs().
getCPUs(evs, nms, start, stop) ==
  DDiv(getCounter(evs, nms, "task"), DMul(getDuration(start, stop), DFromU64(Giga)))

\* A getGHz that hands the sentinel on when one of its counters is missing;
\* the empty-registry property tells it from getGHz.
getGHzChecked(evs, nms) ==
  IF \/ getCounter(evs, nms, "cycle") = DFromInt(-1)
     \/ getCounter(evs, nms, "task") = DFromInt(-1)
  THEN DFromInt(-1)
  ELSE DDiv(getCounter(evs, nms, "cycle"), getCounter(evs, nms, "task"))

\* PerfEvent::getGHz().
getGHz(evs, nms) == DDiv(getCounter(evs, nms, "cycle"), getCounter(evs, nms, "task"))

\* A printReport without the early return on an empty registry; the no-op
\* property tells it from printReport.
printReportUnguarded(evs, nms) ==
  [i \in 1..Len(evs) |-> nms[i]] \o <<"scale", "IPC", "CPU", "GHz">>

\* printReport(headerOut, dataOut, normalizationConstant): the columns it
\* adds, each to both streams.  The digits of a column are not modelled.
printReport(evs, nms) ==
  IF Len(evs) = 0 THEN <<>>
  ELSE [i \in 1..Len(evs) |-> nms[i]] \o <<"scale", "IPC", "CPU", "GHz">>

\* printParams(header, data): one column a parameter, in key order; the
\* model has the one key ParamKey.
ParamKey == "run"
printParams(ps) == IF ParamKey \in DOMAIN ps THEN <<ParamKey>> ELSE <<>>

(***************************************************************************)
(* The steps.                                                              *)
(***************************************************************************)
\* The names getCounter is asked for, the names registerCounter is called
\* with after construction, and the values setParam is called with.
LookupNames == {"cycle", "instr", "task", "extra", "nosuch"}
LateNames == {"cycle", "extra"}
ParamValues == {"a"}

\* The counters whose read may be short: the first and the last registered
\* by the constructor.
ShortAt == {1, Len(DefaultCounters)}
\* The sets of counters whose read is short in one call over n counters: at
\* most one counter, and a short read counts as a call.
ShortSets(n) ==
  {{}} \cup {{i} : i \in {j \in ShortAt : j <= n /\ nCalls + 2 <= MaxCalls}}
\* The fields a short read may deliver.
ShortGot(shorts) == IF shorts = {} THEN {0} ELSE 0..(SnapshotFields - 1)

Init ==
  /\ phase = "unconstructed"
  /\ events = <<>>
  /\ names = <<>>
  /\ startTime = <<>>
  /\ stopTime = <<>>
  /\ params = <<>>
  /\ printHeader = FALSE
  /\ blocks = 0
  /\ kernel = KernelInit
  /\ clock = <<>>
  /\ cout = <<>>
  /\ window = "none"
  /\ lateRegs = 0
  /\ lastOp = "none"
  /\ lastArg = ""
  /\ trace = <<>>
  /\ cerr = <<>>
  /\ shortReads = {}
  /\ headerOut = <<>>
  /\ dataOut = <<>>
  /\ nCalls = 0
  /\ nRuns = 0
  /\ nQueries = 0

\* PerfEvent e;
Construct ==
  /\ phase = "unconstructed"
  /\ \E failAt \in 0..Len(DefaultCounters) :
       LET r == PerfEventCtor(kernel, failAt)
       IN  /\ events' = r.events
           /\ names' = r.names
           /\ kernel' = r.kernel
           /\ trace' = r.trace
           /\ cerr' = r.cerr
           /\ shortReads' = {}
  /\ phase' = "live"
  /\ printHeader' = TRUE
  /\ lastOp' = "PerfEvent"
  /\ lastArg' = ""
  /\ headerOut' = <<>>
  /\ dataOut' = <<>>
  /\ UNCHANGED <<startTime, stopTime, params, blocks, clock, cout, history, budget>>

\* e.registerCounter(name, PERF_TYPE_HARDWARE, PERF_COUNT_HW_INSTRUCTIONS),
\* called on the constructed object.
RegisterCounter ==
  /\ phase = "live"
  /\ nCalls < MaxCalls
  /\ \E name \in LateNames :
       LET r == registerCounter([events |-> events, names |-> names], name,
                                PERF_TYPE_HARDWARE, PERF_COUNT_HW_INSTRUCTIONS, FALSE)
       IN  /\ events' = r.events
           /\ names' = r.names
           /\ lastArg' = name
  /\ lastOp' = "registerCounter"
  /\ trace' = <<>>
  /\ cerr' = <<>>
  /\ shortReads' = {}
  /\ headerOut' = <<>>
  /\ dataOut' = <<>>
  /\ lateRegs' = lateRegs + 1
  /\ nCalls' = nCalls + 1
  /\ UNCHANGED <<phase, startTime, stopTime, params, printHeader, world, window, nRuns, nQueries>>

\* The effect of e.startCounters() on the registry and the kernel.
Start ==
  \E lat \in 0..MaxLat : \E shorts \in ShortSets(Len(events)) :
    \E got \in ShortGot(shorts) :
      LET r == startCounters(events, names, kernel, clock, shorts, got, lat)
      IN  /\ events' = r.events
          /\ kernel' = r.kernel
          /\ startTime' = r.startTime
          /\ trace' = r.trace
          /\ cerr' = r.cerr
          /\ shortReads' = shorts
          /\ window' = "started"
          /\ nCalls' = nCalls + 1 + Cardinality(shorts)

\* The effect of e.stopCounters() on the registry and the kernel.  cost is
\* what the step counts toward MaxCalls: 1 for a call of stopCounters, 0 for
\* the end of a PerfEventBlock, counted when the block was constructed.
Stop(cost) ==
  \E shorts \in ShortSets(Len(events)) : \E got \in ShortGot(shorts) :
    LET r == stopCounters(events, names, kernel, clock, shorts, got)
    IN  /\ events' = r.events
        /\ kernel' = r.kernel
        /\ stopTime' = r.stopTime
        /\ trace' = r.trace
        /\ cerr' = r.cerr
        /\ shortReads' = shorts
        /\ window' = (IF window = "started" THEN "stopped" ELSE window)
        /\ nCalls' = nCalls + cost + Cardinality(shorts)

\* e.startCounters();
StartCounters ==
  /\ phase = "live"
  /\ nCalls < MaxCalls
  /\ Start
  /\ lastOp' = "startCounters"
  /\ lastArg' = ""
  /\ headerOut' = <<>>
  /\ dataOut' = <<>>
  /\ UNCHANGED <<phase, names, stopTime, params, printHeader, blocks, clock, cout, lateRegs, nRuns, nQueries>>

\* e.stopCounters();
StopCounters ==
  /\ phase = "live"
  /\ nCalls < MaxCalls
  /\ Stop(1)
  /\ lastOp' = "stopCounters"
  /\ lastArg' = ""
  /\ headerOut' = <<>>
  /\ dataOut' = <<>>
  /\ UNCHANGED <<phase, names, startTime, params, printHeader, blocks, clock, cout, lateRegs, nRuns, nQueries>>

\* A call op(arg) that only reads the object.
Query(op, arg) ==
  /\ phase = "live"
  /\ nQueries < MaxQueries
  /\ lastOp' = op
  /\ lastArg' = arg
  /\ trace' = <<>>
  /\ cerr' = <<>>
  /\ shortReads' = {}
  /\ nQueries' = nQueries + 1
  /\ UNCHANGED <<object, world, history, nCalls, nRuns>>

\* e.getCounter(name);
GetCounter ==
  \E name \in LookupNames : Query("getCounter", name) /\ headerOut' = <<>> /\ dataOut' = <<>>
\* e.getIPC();
GetIPC == Query("getIPC", "") /\ headerOut' = <<>> /\ dataOut' = <<>>
\* e.getCPUs();
GetCPUs == Query("getCPUs", "") /\ headerOut' = <<>> /\ dataOut' = <<>>
\* e.getGHz();
GetGHz == Query("getGHz", "") /\ headerOut' = <<>> /\ dataOut' = <<>>
\* e.getDuration();
GetDuration == Query("getDuration", "") /\ headerOut' = <<>> /\ dataOut' = <<>>
\* e.getDurationMicros();
GetDurationMicros == Query("getDurationMicros", "") /\ headerOut' = <<>> /\ dataOut' = <<>>
\* e.printReport(headerOut, dataOut, normalizationConstant) on two empty
\* streams.
PrintReport ==
  /\ Query("printReport", "")
  /\ headerOut' = printReport(events, names)
  /\ dataOut' = printReport(events, names)

\* What the last step returned, when it was a call that returns a value.
Ret ==
  CASE lastOp = "getCounter" -> getCounter(events, names, lastArg)
    [] lastOp = "getIPC" -> getIPC(events, names)
    [] lastOp = "getCPUs" -> getCPUs(events, names, startTime, stopTime)
    [] lastOp = "getGHz" -> getGHz(events, names)
    [] lastOp = "getDuration" -> getDuration(startTime, stopTime)
    [] lastOp = "getDurationMicros" -> getDurationMicros(startTime, stopTime)
    [] OTHER -> "void"

\* e.setParam(ParamKey, value);
SetParam ==
  /\ phase = "live"
  /\ nCalls < MaxCalls
  /\ \E value \in ParamValues :
       /\ params' = [key \in DOMAIN params \cup {ParamKey} |->
                       IF key = ParamKey THEN value ELSE params[key]]
       /\ lastArg' = value
  /\ lastOp' = "setParam"
  /\ trace' = <<>>
  /\ cerr' = <<>>
  /\ shortReads' = {}
  /\ headerOut' = <<>>
  /\ dataOut' = <<>>
  /\ nCalls' = nCalls + 1
  /\ UNCHANGED <<phase, events, names, startTime, stopTime, printHeader, world, history, nRuns, nQueries>>

\* PerfEventBlock b(e, scale);
BlockEnter ==
  /\ phase = "live"
  /\ nCalls < MaxCalls
  /\ Start
  /\ blocks' = blocks + 1
  /\ lastOp' = "PerfEventBlock"
  /\ lastArg' = ""
  /\ headerOut' = <<>>
  /\ dataOut' = <<>>
  /\ UNCHANGED <<phase, names, stopTime, params, printHeader, clock, cout, lateRegs, nRuns, nQueries>>

\* A ~PerfEventBlock() that never clears printHeader; the header-once
\* property tells it from BlockExit.
BlockExitKeepHeader ==
  /\ phase = "live"
  /\ blocks > 0
  /\ Stop(0)
  /\ LET cols == printParams(params) \o <<"time", "time_us">> \o printReport(events', names)
     IN  /\ headerOut' = cols
         /\ dataOut' = cols
         /\ cout' = cout
                    \o (IF printHeader THEN <<[kind |-> "header", cols |-> cols]>> ELSE <<>>)
                    \o <<[kind |-> "data", cols |-> cols]>>
  /\ printHeader' = printHeader
  /\ blocks' = blocks - 1
  /\ lastOp' = "~PerfEventBlock"
  /\ lastArg' = ""
  /\ UNCHANGED <<phase, names, startTime, params, clock, lateRegs, nRuns, nQueries>>

\* The end of a PerfEventBlock's scope: ~PerfEventBlock().
BlockExit ==
  /\ phase = "live"
  /\ blocks > 0
  /\ Stop(0)
  /\ LET cols == printParams(params) \o <<"time", "time_us">> \o printReport(events', names)
     IN  /\ headerOut' = cols
         /\ dataOut' = cols
         /\ cout' = cout
                    \o (IF printHeader THEN <<[kind |-> "header", cols |-> cols]>> ELSE <<>>)
                    \o <<[kind |-> "data", cols |-> cols]>>
  /\ printHeader' = FALSE
  /\ blocks' = blocks - 1
  /\ lastOp' = "~PerfEventBlock"
  /\ lastArg' = ""
  /\ UNCHANGED <<phase, names, startTime, params, clock, lateRegs, nRuns, nQueries>>

\* The end of e's scope: ~PerfEvent().  Every block on e has ended before.
Destroy ==
  /\ phase = "live"
  /\ blocks = 0
  /\ LET r == PerfEventDtor(events, kernel)
     IN  /\ kernel' = r.kernel
         /\ trace' = r.trace
  /\ phase' = "destroyed"
  /\ lastOp' = "~PerfEvent"
  /\ lastArg' = ""
  /\ cerr' = <<>>
  /\ shortReads' = {}
  /\ headerOut' = <<>>
  /\ dataOut' = <<>>
  /\ UNCHANGED <<events, names, startTime, stopTime, params, printHeader, blocks, clock, cout, history, budget>>

\* The measured program runs one of the workloads.
Run ==
  /\ phase = "live"
  /\ nRuns < MaxRuns
  /\ \E w \in 1..Len(Workloads) :
       /\ kernel' = KRun(kernel, Workloads[w])
       /\ clock' = BNAdd(clock, Workloads[w].dt)
  /\ lastOp' = "run"
  /\ lastArg' = ""
  /\ trace' = <<>>
  /\ cerr' = <<>>
  /\ shortReads' = {}
  /\ headerOut' = <<>>
  /\ dataOut' = <<>>
  /\ nRuns' = nRuns + 1
  /\ UNCHANGED <<object, blocks, cout, history, nCalls, nQueries>>

Next ==
  \/ Construct
  \/ RegisterCounter
  \/ StartCounters
  \/ StopCounters
  \/ GetCounter
  \/ GetIPC
  \/ GetCPUs
  \/ GetGHz
  \/ GetDuration
  \/ GetDurationMicros
  \/ PrintReport
  \/ SetParam
  \/ BlockEnter
  \/ BlockExit
  \/ Destroy
  \/ Run

Spec == Init /\ [][Next]_vars
(***************************************************************************)
(* What the kernel's counts and the history say about the construction.    *)
(***************************************************************************)
\* The constructor ran and one of its perf_event_open calls failed: a
\* descriptor it would have been given was never opened.
OpenFailed ==
  /\ phase # "unconstructed"
  /\ \E fd \in Fds \ StdFds : kernel[fd].opens = 0

\* The constructor ran and every perf_event_open succeeded.
OpenedAll ==
  /\ phase # "unconstructed"
  /\ \A fd \in Fds \ StdFds : kernel[fd].opens = 1

\* The indices at which name is registered.
IndicesOf(name) == {i \in 1..Len(names) : names[i] = name}

\* The sentinel getCounter documents.
Sentinel == DFromInt(-1)

\* The steps that run startCounters and stopCounters.
StartOps == {"startCounters", "PerfEventBlock"}
StopOps == {"stopCounters", "~PerfEventBlock"}

(***************************************************************************)
(* Release of the handles.                                                 *)
(***************************************************************************)
\* C1: when ~PerfEvent() has finished, every handle a successful
\* perf_event_open returned has been closed exactly once, whether all opens
\* succeeded or the k-th failed after k-1 successes, and whatever
\* startCounters and stopCounters calls came between.
C1_EveryHandleClosedOnce ==
  phase = "destroyed" =>
    \A fd \in Fds : kernel[fd].opens >= 1 => kernel[fd].closes = 1

\* C1, the case the constructor's rollback leaves behind: the object is
\* destroyed and a handle perf_event_open returned is still open, never
\* closed.
C1_LeakedHandle ==
  /\ phase = "destroyed"
  /\ OpenFailed
  /\ \E fd \in Fds : /\ kernel[fd].opens = 1
                     /\ kernel[fd].closes = 0
                     /\ kernel[fd].kind = "perf"

(***************************************************************************)
(* All-or-nothing open.                                                    *)
(***************************************************************************)
\* C2: if one of the constructor's perf_event_open calls returns a negative
\* handle, whichever it is, then after construction events and names are both
\* empty.
C2_AllOrNothing ==
  (lastOp = "PerfEvent" /\ \E j \in 1..Len(trace) : trace[j].fd < 0)
    => (events = <<>> /\ names = <<>>)

\* C2, its case: the constructor has just returned and its fifth open, after
\* four successes, failed.
C2_FifthOpenFailed ==
  /\ lastOp = "PerfEvent"
  /\ Len(trace) = 5
  /\ \A j \in 1..4 : trace[j].fd >= 0
  /\ trace[5].fd < 0
  /\ cerr = <<DefaultCounters[5].name>>

\* C3: after a failed open, with no counter registered since, startCounters
\* and stopCounters issue no kernel call (they only read the clock),
\* printReport writes nothing to either stream, getCounter returns the
\* sentinel for every name, and the destructor issues no close.
C3_FailedOpenIsNoOp ==
  (OpenFailed /\ lateRegs = 0) =>
    /\ lastOp \in StartOps \cup StopOps =>
         \A j \in 1..Len(trace) : trace[j].call = "now"
    /\ lastOp = "printReport" => (headerOut = <<>> /\ dataOut = <<>>)
    /\ lastOp = "getCounter" => Ret = Sentinel
    /\ lastOp = "~PerfEvent" => trace = <<>>

\* C3, its case: the third open failed, startCounters and stopCounters have
\* run on the cleared registry, and printReport has just been called.
C3_ReportAfterFailedOpen ==
  /\ OpenFailed
  /\ lateRegs = 0
  /\ kernel[Cardinality(StdFds) + 1].opens = 1
  /\ kernel[Cardinality(StdFds) + 2].opens = 0
  /\ window = "stopped"
  /\ lastOp = "printReport"

(***************************************************************************)
(* The registry's entries and lookup.                                      *)
(***************************************************************************)
\* The registry as a list: each entry's name, attributes and handle.
RegistryShape ==
  [i \in 1..Len(events) |-> <<names[i], events[i].pe, events[i].fd>>]

\* The entries are those of the constructor's registerCounter calls, in
\* order, each with the handle its perf_event_open returned.
RegistrationOrder ==
  /\ Len(names) = Len(DefaultCounters) + lateRegs
  /\ Len(events) = Len(DefaultCounters) + lateRegs
  /\ \A i \in 1..Len(DefaultCounters) :
       /\ names[i] = DefaultCounters[i].name
       /\ events[i].pe.type = DefaultCounters[i].type
       /\ events[i].pe.config = DefaultCounters[i].eventID
       /\ events[i].pe.exclude_user = DefaultCounters[i].exclude_user
       /\ events[i].fd >= 0
       /\ \A j \in 1..Len(DefaultCounters) : events[j].fd = events[i].fd => j = i
       /\ lastOp = "PerfEvent" => trace[i] = Call("open", events[i].fd)
       /\ phase = "live" => /\ kernel[events[i].fd].kind = "perf"
                            /\ kernel[events[i].fd].attr = events[i].pe

\* C4: when all N opens succeed the registry has exactly the N entries of
\* the registerCounter calls, in their order (name, type, config,
\* exclude_user, handle), and startCounters, stopCounters, getCounter and
\* printReport never change the length or order of names or events.
C4_EntriesInRegistrationOrder ==
  /\ [](OpenedAll => RegistrationOrder)
  /\ [][lastOp' \in StartOps \cup StopOps \cup {"getCounter", "printReport"}
          => RegistryShape' = RegistryShape]_vars

\* C4, its case: all eight opens succeeded, the counters were started and
\* stopped, and printReport has just written the eight names in order.
C4_ReportAfterMeasurement ==
  /\ OpenedAll
  /\ lateRegs = 0
  /\ Len(events) = Len(DefaultCounters)
  /\ window = "stopped"
  /\ lastOp = "printReport"
  /\ SubSeq(headerOut, 1, Len(DefaultCounters))
       = [i \in 1..Len(DefaultCounters) |-> DefaultCounters[i].name]

\* C5: for a name registered at one or more indices, getCounter(name) is
\* readCounter() of the entry at the smallest such index, also when the name
\* was registered several times.
C5_FirstMatch ==
  (lastOp = "getCounter" /\ IndicesOf(lastArg) # {}) =>
    LET first == CHOOSE i \in IndicesOf(lastArg) : \A j \in IndicesOf(lastArg) : i <= j
    IN  Ret = readCounter(events[first])

\* C5, its case: "cycle" is registered twice, the two entries have different
\* corrected values, and getCounter("cycle") has just been called.
C5_DuplicateName ==
  /\ lastOp = "getCounter"
  /\ lastArg = "cycle"
  /\ Cardinality(IndicesOf("cycle")) = 2
  /\ \E i, j \in IndicesOf("cycle") :
       /\ i < j
       /\ readCounter(events[i]) # readCounter(events[j])
       /\ readCounter(events[i]) = DFromInt(500)

\* C6: for a name that matches no registered name, in every registry, the
\* empty one too, getCounter(name) returns -1, and the call changes nothing
\* of the object or of the kernel.
C6_SentinelForUnknownName ==
  /\ []((lastOp = "getCounter" /\ IndicesOf(lastArg) = {}) => Ret = Sentinel)
  /\ [][lastOp' = "getCounter" => UNCHANGED <<object, world>>]_vars

\* C6, its case: all eight counters are registered and have counted, and
\* getCounter has just been asked for a name that is none of theirs.
C6_UnknownNameAsked ==
  /\ lastOp = "getCounter"
  /\ lastArg = "nosuch"
  /\ Len(names) = Len(DefaultCounters)
  /\ window = "stopped"
  /\ \E i \in 1..Len(events) : events[i].data.value # <<>>

(***************************************************************************)
(* readCounter on its own: a registry of one counter whose two snapshots   *)
(* are drawn from sample values, and the one step that reads it.           *)
(***************************************************************************)
\* Values of a uint64_t field: small ones, the first integer a double cannot
\* hold and its neighbour, and the largest.
U64Samples ==
  {<<>>, <<1>>, BNFromNat(1000), BNShl(<<1>>, 53),
   BNAdd(BNShl(<<1>>, 53), <<1>>), BNSub(TwoTo64, <<1>>)}

\* Values of time_enabled and time_running, ns.
TimeSamples == {<<>>, BNFromNat(75), BNFromNat(250)}

Snapshots ==
  {[value |-> v, time_enabled |-> e, time_running |-> r, id |-> <<>>] :
     v \in U64Samples, e \in TimeSamples, r \in TimeSamples}

InitSnap ==
  /\ phase = "live"
  /\ \E p \in Snapshots : \E d \in Snapshots :
       events = <<[ZeroEvent EXCEPT !.prev = p, !.data = d]>>
  /\ names = <<"cycle">>
  /\ startTime = <<>>
  /\ stopTime = <<>>
  /\ params = <<>>
  /\ printHeader = TRUE
  /\ blocks = 0
  /\ kernel = KernelInit
  /\ clock = <<>>
  /\ cout = <<>>
  /\ window = "none"
  /\ lateRegs = 0
  /\ lastOp = "none"
  /\ lastArg = ""
  /\ trace = <<>>
  /\ cerr = <<>>
  /\ shortReads = {}
  /\ headerOut = <<>>
  /\ dataOut = <<>>
  /\ nCalls = 0
  /\ nRuns = 0
  /\ nQueries = 0

\* events[0].readCounter();
ReadCounter ==
  /\ lastOp = "none"
  /\ lastOp' = "readCounter"
  /\ UNCHANGED <<object, world, history, lastArg, trace, cerr, shortReads, headerOut,
               dataOut, budget>>

NextSnap == ReadCounter

SnapSpec == InitSnap /\ [][NextSnap]_vars

(***************************************************************************)
(* The multiplexing correction.                                            *)
(***************************************************************************)
\* The three differences readCounter takes, as the uint64_t subtraction
\* gives them.
ValueDelta(ev) == U64Sub(ev.data.value, ev.prev.value)
EnabledDelta(ev) == U64Sub(ev.data.time_enabled, ev.prev.time_enabled)
RunningDelta(ev) == U64Sub(ev.data.time_running, ev.prev.time_running)

\* The double d is the natural number n, exactly.
DIsNat(d, n) ==
  /\ d.k = "num"
  /\ IF n = <<>> THEN d.m = <<>>
     ELSE /\ d.s = 0
          /\ d.m # <<>>
          /\ IF d.e >= 0 THEN BNShl(d.m, d.e) = n ELSE BNShl(n, 0 - d.e) = d.m

\* No field of the final snapshot is below the baseline's.
NoWrap(ev) ==
  /\ BNCmp(ev.data.value, ev.prev.value) >= 0
  /\ BNCmp(ev.data.time_enabled, ev.prev.time_enabled) >= 0
  /\ BNCmp(ev.data.time_running, ev.prev.time_running) >= 0

\* The largest count up to which every integer is a double.
TwoTo53 == BNShl(<<1>>, 53)

\* C7, as stated, on the pairs whose final snapshot is not below the
\* baseline: with runningDelta > 0 readCounter() is the value delta times
\* enabledDelta / runningDelta, and with enabledDelta = runningDelta it is the
\* raw value delta exactly.
C7_RawDeltaExactly ==
  (lastOp = "readCounter" /\ NoWrap(events[1]) /\ RunningDelta(events[1]) # <<>>) =>
    LET ev == events[1]
    IN  /\ readCounter(ev) = DMul(DFromU64(ValueDelta(ev)),
                                  DDiv(DFromU64(EnabledDelta(ev)),
                                       DFromU64(RunningDelta(ev))))
        /\ EnabledDelta(ev) = RunningDelta(ev) => DIsNat(readCounter(ev), ValueDelta(ev))

\* C7, amended: with the three deltas taken modulo 2^64 and runningDelta not
\* 0, readCounter() is double(valueDelta) * (double(enabledDelta) /
\* double(runningDelta)) in double arithmetic; with enabledDelta =
\* runningDelta it is valueDelta rounded to a double, which is the raw delta
\* exactly whenever valueDelta <= 2^53.
C7_CorrectionInDoubles ==
  (lastOp = "readCounter" /\ RunningDelta(events[1]) # <<>>) =>
    LET ev == events[1]
    IN  /\ readCounter(ev) = DMul(DFromU64(ValueDelta(ev)),
                                  DDiv(DFromU64(EnabledDelta(ev)),
                                       DFromU64(RunningDelta(ev))))
        /\ EnabledDelta(ev) = RunningDelta(ev) =>
             /\ readCounter(ev) = DFromU64(ValueDelta(ev))
             /\ BNCmp(ValueDelta(ev), TwoTo53) <= 0 =>
                  DIsNat(readCounter(ev), ValueDelta(ev))

\* C7, its case: a counter that counted 1000 events while enabled and running
\* for the same 250 ns has just been read, and the result is 1000.
C7_UnmultiplexedRead ==
  /\ lastOp = "readCounter"
  /\ events[1].prev = ZeroFormat
  /\ events[1].data.value = BNFromNat(1000)
  /\ events[1].data.time_enabled = BNFromNat(250)
  /\ events[1].data.time_running = BNFromNat(250)
  /\ readCounter(events[1]) = DFromInt(1000)

(***************************************************************************)
(* Derived metrics.                                                        *)
(***************************************************************************)
\* The first counter named name has a zero baseline and a final snapshot of
\* v events with time_enabled equal to time_running, not 0.
Measured(name, v) ==
  /\ IndicesOf(name) # {}
  /\ LET i == CHOOSE i \in IndicesOf(name) : \A j \in IndicesOf(name) : i <= j
     IN  /\ events[i].prev = ZeroFormat
         /\ events[i].data.value = v
         /\ events[i].data.time_enabled = events[i].data.time_running
         /\ events[i].data.time_running # <<>>

\* C8: getIPC() is getCounter("instr") / getCounter("cycle") and getGHz() is
\* getCounter("cycle") / getCounter("task"); with zero baselines and equal
\* enabled and running times, instr = 1000 and cycle = 500 give getIPC() = 2,
\* and cycle = 3000000000 and task = 1000000000 give getGHz() = 3.
C8_DerivedMetrics ==
  /\ lastOp = "getIPC" =>
       /\ Ret = DDiv(getCounter(events, names, "instr"), getCounter(events, names, "cycle"))
       /\ (Measured("instr", BNFromNat(1000)) /\ Measured("cycle", BNFromNat(500)))
            => Ret = DFromInt(2)
  /\ lastOp = "getGHz" =>
       /\ Ret = DDiv(getCounter(events, names, "cycle"), getCounter(events, names, "task"))
       /\ (Measured("cycle", BNMulSmall(Giga, 3)) /\ Measured("task", Giga))
            => Ret = DFromInt(3)

\* C8, its case: 1000 instructions were counted in 500 cycles from a zero
\* baseline, not multiplexed, and getIPC() has just returned 2.
C8_TwoInstructionsPerCycle ==
  /\ lastOp = "getIPC"
  /\ Measured("instr", BNFromNat(1000))
  /\ Measured("cycle", BNFromNat(500))
  /\ Ret = DFromInt(2)

(***************************************************************************)
(* The wall clock.                                                         *)
(***************************************************************************)
\* C9: when the last startCounters has been followed by a stopCounters,
\* stopTime >= startTime, getDuration() >= 0, and getDurationMicros() is the
\* microsecond count itself, not a negative count turned into a size_t.
C9_DurationNotNegative ==
  window = "stopped" =>
    /\ BNCmp(stopTime, startTime) >= 0
    /\ lastOp = "getDuration" => DNonNeg(Ret)
    /\ lastOp = "getDurationMicros" =>
         /\ ~MicrosCount(startTime, stopTime).neg
         /\ Ret = MicrosCount(startTime, stopTime).mag

\* C9, its case: the counters were started when the clock already stood above
\* 0, work ran for a time, they were stopped, and getDuration() has just
\* returned a positive number.
C9_DurationAfterStartStop ==
  /\ window = "stopped"
  /\ startTime # <<>>
  /\ BNCmp(stopTime, startTime) > 0
  /\ lastOp = "getDuration"
  /\ DNonNeg(Ret)
  /\ ~DIsZero(Ret)

(***************************************************************************)
(* The order of the kernel calls.                                          *)
(***************************************************************************)
\* C10: startCounters goes through the counters in registration order; for
\* each it issues reset, enable and the baseline read in this order, counter
\* i+1's reset coming after counter i's read; and it reads the clock for the
\* start timestamp after the last counter's baseline read.
C10_StartOrder ==
  lastOp \in StartOps =>
    /\ Len(trace) = 3 * Len(events) + 1
    /\ \A i \in 1..Len(events) :
         /\ trace[3 * i - 2] = Call("reset", events[i].fd)
         /\ trace[3 * i - 1] = Call("enable", events[i].fd)
         /\ trace[3 * i] = Call("read", events[i].fd)
    /\ trace[Len(trace)] = Call("now", -1)
    /\ startTime = clock

\* C10, its case: startCounters has just run over the eight opened counters:
\* 24 kernel calls, then the clock.
C10_StartedEightCounters ==
  /\ lastOp = "startCounters"
  /\ OpenedAll
  /\ Len(events) = Len(DefaultCounters)
  /\ Len(trace) = 3 * Len(DefaultCounters) + 1
  /\ trace[3 * Len(DefaultCounters)].call = "read"
  /\ trace[3 * Len(DefaultCounters) + 1].call = "now"

\* C11: stopCounters reads the clock for the stop timestamp before any
\* kernel call; then it goes through the counters in registration order and
\* reads each counter's final snapshot before it disables that counter, so
\* no counter has been disabled by this call when its snapshot is read.
C11_StopOrder ==
  lastOp \in StopOps =>
    /\ Len(trace) = 2 * Len(events) + 1
    /\ trace[1] = Call("now", -1)
    /\ stopTime = clock
    /\ \A i \in 1..Len(events) :
         /\ trace[2 * i] = Call("read", events[i].fd)
         /\ trace[2 * i + 1] = Call("disable", events[i].fd)
         /\ kernel[events[i].fd].kind = "perf" =>
              \A j \in 1..(2 * i) : trace[j] # Call("disable", events[i].fd)

\* C11, its case: stopCounters has just run over the eight opened and
\* started counters: the clock, then eight times read and disable.
C11_StoppedEightCounters ==
  /\ lastOp = "stopCounters"
  /\ OpenedAll
  /\ window = "stopped"
  /\ Len(events) = Len(DefaultCounters)
  /\ trace[1].call = "now"
  /\ trace[2 * Len(DefaultCounters)].call = "read"
  /\ trace[2 * Len(DefaultCounters) + 1].call = "disable"

(***************************************************************************)
(* The measurement window.                                                 *)
(***************************************************************************)
\* Which descriptors are enabled counters.
EnabledFds == {fd \in Fds : kernel[fd].kind = "perf" /\ kernel[fd].enabled}

\* The handles of the counters the constructor registered and opened.
OpenedHandles == {events[i].fd : i \in 1..Len(DefaultCounters)}

\* C12: in a registry whose opens all succeeded, every counter is disabled
\* from its open to the first startCounters, enabled from the return of
\* startCounters to stopCounters, and disabled after stopCounters returns;
\* and no step other than startCounters and stopCounters (and the
\* constructor and destructor, which open and close the handles) enables or
\* disables a counter.
C12_MeasurementWindow ==
  /\ []((phase = "live" /\ OpenedAll) =>
          /\ window = "started" => EnabledFds = OpenedHandles
          /\ window # "started" => EnabledFds = {})
  /\ [][lastOp' \notin StartOps \cup StopOps \cup {"PerfEvent", "~PerfEvent"}
          => EnabledFds' = EnabledFds]_vars

\* C12, its case: the eight counters were started, work ran, and getIPC has
\* just been called inside the window: all eight are still enabled.
C12_QueryInsideWindow ==
  /\ phase = "live"
  /\ OpenedAll
  /\ window = "started"
  /\ nRuns > 0
  /\ lastOp = "getIPC"
  /\ Cardinality(EnabledFds) = Len(DefaultCounters)

(***************************************************************************)
(* Short reads.                                                            *)
(***************************************************************************)
\* The snapshot s holds what the counter behind fd shows now.
SnapshotOf(s, fd) ==
  /\ s.value = kernel[fd].value
  /\ s.time_enabled = kernel[fd].time_enabled
  /\ s.time_running = kernel[fd].time_running

\* The entries a registry has after the constructor and lateRegs later
\* registerCounter calls.
EntriesExpected == (IF OpenFailed THEN 0 ELSE Len(DefaultCounters)) + lateRegs

\* C13: when the read of counter i in startCounters or stopCounters returns
\* fewer than 24 bytes, the counter's name is reported on std::cerr, every
\* later counter is still processed in full (reset, enable, read, or read,
\* disable, its snapshot complete), counter i itself is still enabled (or
\* disabled), startCounters still records the start timestamp, and no entry
\* leaves the registry.
C13_ShortReadNonFatal ==
  (lastOp \in StartOps \cup StopOps) =>
    \A i \in shortReads :
      /\ \E j \in 1..Len(cerr) : cerr[j] = names[i]
      /\ Len(events) = EntriesExpected
      /\ Len(names) = EntriesExpected
      /\ kernel[events[i].fd].kind = "perf" =>
           kernel[events[i].fd].enabled = (lastOp \in StartOps)
      /\ lastOp \in StartOps =>
           /\ Len(trace) = 3 * Len(events) + 1
           /\ trace[Len(trace)] = Call("now", -1)
           /\ startTime = clock
           /\ \A n \in (i + 1)..Len(events) :
                /\ trace[3 * n - 2] = Call("reset", events[n].fd)
                /\ trace[3 * n - 1] = Call("enable", events[n].fd)
                /\ trace[3 * n] = Call("read", events[n].fd)
                /\ kernel[events[n].fd].kind = "perf" =>
                     /\ kernel[events[n].fd].enabled
                     /\ n \notin shortReads => SnapshotOf(events[n].prev, events[n].fd)
      /\ lastOp \in StopOps =>
           /\ Len(trace) = 2 * Len(events) + 1
           /\ \A n \in (i + 1)..Len(events) :
                /\ trace[2 * n] = Call("read", events[n].fd)
                /\ trace[2 * n + 1] = Call("disable", events[n].fd)
                /\ kernel[events[n].fd].kind = "perf" =>
                     /\ ~kernel[events[n].fd].enabled
                     /\ n \notin shortReads => SnapshotOf(events[n].data, events[n].fd)

\* C13, its case: startCounters has just run over the eight opened counters
\* and the read of the first was short: "cycle" is reported, and the first
\* and the last counter are enabled.
C13_FirstReadShort ==
  /\ lastOp = "startCounters"
  /\ OpenedAll
  /\ shortReads = {1}
  /\ cerr = <<"cycle">>
  /\ Len(events) = Len(DefaultCounters)
  /\ kernel[events[1].fd].enabled
  /\ kernel[events[Len(DefaultCounters)].fd].enabled

(***************************************************************************)
(* The handles.                                                            *)
(***************************************************************************)
\* The handle of every entry, in order.
HandleList == [i \in 1..Len(events) |-> events[i].fd]

\* How often each descriptor has been closed.
CloseCounts == [fd \in Fds |-> kernel[fd].closes]

\* The steps that are neither construction nor destruction nor
\* registerCounter.
UseOps ==
  StartOps \cup StopOps \cup
  {"getCounter", "getIPC", "getCPUs", "getGHz", "getDuration", "getDurationMicros",
   "printReport", "setParam", "run"}

\* C14: in a registry whose opens all succeeded, as long as the object
\* lives the handle of every entry the constructor opened is an open counter
\* that has never been closed, and no step of startCounters, stopCounters,
\* getCounter, getIPC, getCPUs, getGHz or printReport closes a descriptor or
\* changes the handle of an entry.
C14_HandleStaysValid ==
  /\ []((phase = "live" /\ OpenedAll) =>
          \A i \in 1..Len(DefaultCounters) :
            /\ kernel[events[i].fd].kind = "perf"
            /\ kernel[events[i].fd].opens = 1
            /\ kernel[events[i].fd].closes = 0
            /\ kernel[events[i].fd].attr = events[i].pe)
  /\ [][lastOp' \in UseOps =>
          (HandleList' = HandleList /\ CloseCounts' = CloseCounts)]_vars

\* C14, its case: the eight counters were started and stopped, printReport
\* has just run, and the eighth handle is still the open counter it was.
C14_HandlesAfterUse ==
  /\ phase = "live"
  /\ OpenedAll
  /\ window = "stopped"
  /\ lastOp = "printReport"
  /\ kernel[events[Len(DefaultCounters)].fd].kind = "perf"
  /\ kernel[events[Len(DefaultCounters)].fd].closes = 0

\* C15: every reset, enable, read, disable and close that startCounters,
\* stopCounters and the destructor issue targets a handle that a successful
\* perf_event_open returned and that was not closed before, also when
\* registerCounter was called after construction.
C15_HandlesComeFromOpen ==
  lastOp \in StartOps \cup StopOps \cup {"~PerfEvent"} =>
    \A j \in 1..Len(trace) :
      trace[j].call # "now" =>
        /\ kernel[trace[j].fd].opens >= 1
        /\ trace[j].call = "close" => kernel[trace[j].fd].closes = 1
        /\ trace[j].call # "close" => kernel[trace[j].fd].kind = "perf"

\* C15, the case that breaks it: a counter was registered after
\* construction, its handle is still the 0 of a value-initialised event, and
\* startCounters has just issued reset, enable and read on descriptor 0,
\* standard input, which no perf_event_open ever returned.
C15_KernelCallOnStdin ==
  /\ lastOp = "startCounters"
  /\ lateRegs > 0
  /\ events[Len(events)].fd = 0
  /\ kernel[0].kind = "std"
  /\ kernel[0].opens = 0
  /\ trace[Len(trace) - 3] = Call("reset", 0)
  /\ trace[Len(trace) - 2] = Call("enable", 0)
  /\ trace[Len(trace) - 1] = Call("read", 0)

(***************************************************************************)
(* The sign of a corrected value.                                          *)
(***************************************************************************)
\* x < 0 as C++ compares doubles.
DNegative(x) == x.k # "nan" /\ x.s = 1 /\ ~DIsZero(x)

\* C16: for all baseline and final snapshots, a final value below the
\* baseline included, the deltas are taken modulo 2^64, so readCounter() is
\* never negative, it is a finite number >= 0 whenever runningDelta is not
\* 0, and getCounter of a registered name never returns the sentinel -1.
C16_CorrectedValueNotNegative ==
  lastOp = "readCounter" =>
    LET ev == events[1]
    IN  /\ ~DNegative(readCounter(ev))
        /\ RunningDelta(ev) # <<>> =>
             (DFinite(readCounter(ev)) /\ DNonNeg(readCounter(ev)))
        /\ ~DEq(getCounter(events, names, names[1]), Sentinel)
        /\ (BNCmp(ev.data.value, ev.prev.value) < 0
            /\ EnabledDelta(ev) = RunningDelta(ev) /\ RunningDelta(ev) # <<>>) =>
             readCounter(ev) =
               DFromU64(BNSub(TwoTo64, BNSub(ev.prev.value, ev.data.value)))

\* C16, its case: the final snapshot is stale, its value 0 below the
\* baseline's 1000, the times not multiplexed; readCounter has just returned
\* the double of 2^64 - 1000, not a negative number.
C16_StaleFinalSnapshot ==
  /\ lastOp = "readCounter"
  /\ events[1].prev.value = BNFromNat(1000)
  /\ events[1].data.value = <<>>
  /\ events[1].prev.time_running = <<>>
  /\ events[1].data.time_running = BNFromNat(250)
  /\ events[1].prev.time_enabled = <<>>
  /\ events[1].data.time_enabled = BNFromNat(250)
  /\ readCounter(events[1]) = DFromU64(BNSub(TwoTo64, BNFromNat(1000)))
  /\ DNonNeg(readCounter(events[1]))

(***************************************************************************)
(* Derived metrics of an empty registry.                                   *)
(***************************************************************************)
\* C17: on an empty registry getIPC() and getGHz() do not return the
\* sentinel: each is (-1) / (-1) = 1; neither writes to std::cerr, and
\* neither changes the object or the kernel.
C17_EmptyRegistryMetricsAreOne ==
  /\ []((events = <<>> /\ lastOp \in {"getIPC", "getGHz"}) =>
          /\ Ret = DFromInt(1)
          /\ Ret # Sentinel
          /\ Ret = DDiv(Sentinel, Sentinel)
          /\ cerr = <<>>)
  /\ [][lastOp' \in {"getIPC", "getGHz"} => UNCHANGED <<object, world>>]_vars

\* C17, its case: the first open failed, the registry is empty, and getGHz()
\* has just returned 1.
C17_GHzOfEmptyRegistry ==
  /\ OpenFailed
  /\ events = <<>>
  /\ names = <<>>
  /\ lastOp = "getGHz"
  /\ Ret = DFromInt(1)

(***************************************************************************)
(* PerfEventBlock.                                                         *)
(***************************************************************************)
\* How many of the calls in tr are what.
CallCount(tr, what) == Cardinality({j \in 1..Len(tr) : tr[j].call = what})

\* The kinds of the lines on std::cout, in order.
LineKinds == [j \in 1..Len(cout) |-> cout[j].kind]

\* C18: a PerfEventBlock's construction is one startCounters (one clock
\* reading after one reset, enable and read for each counter) and prints
\* nothing; its destruction is one stopCounters (one clock reading, then one
\* read and disable for each counter) and prints exactly one data line,
\* after a header line if and only if no block was destroyed before; no
\* other step prints; printHeader goes from true to false and never back;
\* all this also when the registry is empty.
C18_HeaderOnceDataEach ==
  /\ [](/\ \A j \in 1..Len(cout) : (cout[j].kind = "header") <=> (j = 1)
        /\ phase = "live" => (printHeader <=> cout = <<>>))
  /\ [][/\ lastOp' = "PerfEventBlock" =>
             /\ blocks' = blocks + 1
             /\ cout' = cout
             /\ window' = "started"
             /\ CallCount(trace', "now") = 1
             /\ CallCount(trace', "reset") = Len(events)
             /\ CallCount(trace', "enable") = Len(events)
             /\ CallCount(trace', "read") = Len(events)
             /\ Len(trace') = 3 * Len(events) + 1
        /\ lastOp' = "~PerfEventBlock" =>
             /\ blocks' = blocks - 1
             /\ CallCount(trace', "now") = 1
             /\ CallCount(trace', "read") = Len(events)
             /\ CallCount(trace', "disable") = Len(events)
             /\ Len(trace') = 2 * Len(events) + 1
             /\ Len(cout') = Len(cout) + (IF cout = <<>> THEN 2 ELSE 1)
             /\ SubSeq(cout', 1, Len(cout)) = cout
             /\ cout'[Len(cout')].kind = "data"
             /\ cout = <<>> => cout'[1].kind = "header"
             /\ ~printHeader'
        /\ lastOp' \notin {"PerfEventBlock", "~PerfEventBlock"} =>
             (cout' = cout /\ blocks' = blocks)
        /\ printHeader' => (printHeader \/ lastOp' = "PerfEvent")
       ]_vars

\* C18, its case: two blocks on the same PerfEvent have ended, the second
\* just now: std::cout holds the header, the first block's data line and the
\* second block's data line.
C18_TwoBlocksEnded ==
  /\ lastOp = "~PerfEventBlock"
  /\ blocks = 0
  /\ LineKinds = <<"header", "data", "data">>
  /\ ~printHeader

====
